---- MODULE Spec2Model ----
(***************************************************************************)
(* bun-plugin-html: the asset graph, the naming / identity-fold resolver,  *)
(* the attribute rewrite rules and the write-once output writer of         *)
(* src/src/index.ts, as a state machine over one plugin instance and the   *)
(* builds that run with it.                                                *)
(*                                                                         *)
(* Paths are records [dir, base]: dir is the sequence of directory         *)
(* segments (absolute paths start with the segment "/"), base is the file  *)
(* name split as [n, h, e] = name, hash embedded by a naming template      *)
(* (0 = none) and extension.  Texts are natural numbers: 0 is the empty    *)
(* string, every other number a distinct non-empty text.                   *)
(***************************************************************************)
EXTENDS Integers, Sequences, FiniteSets, TLC

VARIABLES
    cfg,                \* build.config and the plugin options (fixed per behaviour)
    src,                \* the source tree: path -> [text, elems]
    disk,               \* the output tree: path -> [text, elems]
    namedAs,            \* _namedAs of the plugin closure
    pathSaved,          \* _pathSaved of the plugin closure
    files,              \* the graph: Map<BunFile, FileDetails> in insertion order
    attributesToChange, \* the accumulated rewrite rules
    newFiles,           \* the renamed graph handed to the two write loops
    pc,                 \* position of html.setup
    idx,                \* position inside the current write loop
    builds,             \* number of builds started
    edited,             \* the source tree was edited since the previous build
    discovered,         \* history: the graph as built by the extractor
    writes,             \* history: physical writes (Bun.write) of this build
    events,             \* history: what each write-loop iteration did
    toReplacePaths,     \* forJsFiles: the specifiers the resolver queued
    entrypointToOutput, \* forJsFiles: script entry -> path of its output
    outputTexts         \* history: output.text() of each bundler output

\* the state of forJsFiles that only a build with code-splitting uses
jsVars == <<toReplacePaths, entrypointToOutput, outputTexts>>

vars == <<cfg, src, disk, namedAs, pathSaved, files, attributesToChange,
          newFiles, pc, idx, builds, edited, discovered, writes, events, jsVars>>

(***************************************************************************)
(* Bounds of the model.                                                    *)
(***************************************************************************)
MaxElems == 2       \* elements per HTML document
MaxBuilds == 2      \* builds per behaviour

(***************************************************************************)
(* Paths (node:path).                                                      *)
(***************************************************************************)
Base(n, e) == [n |-> n, h |-> 0, e |-> e]
Path(dir, base) == [dir |-> dir, base |-> base]
NoPath == Path(<<>>, Base("", ""))

IsAbs(p) == Len(p.dir) > 0 /\ p.dir[1] = "/"
IsPrefix(s, t) == Len(s) <= Len(t) /\ SubSeq(t, 1, Len(s)) = s
Drop(s, k) == SubSeq(s, k + 1, Len(s))

RECURSIVE CommonLen(_, _)
CommonLen(s, t) ==
    IF s = <<>> \/ t = <<>> \/ Head(s) # Head(t) THEN 0
    ELSE 1 + CommonLen(Tail(s), Tail(t))

\* an attribute value: a URL, or a relative reference "../"^ups dir/base
Ref(ups, dir, base) == [url |-> FALSE, ups |-> ups, dir |-> dir, base |-> base]
Url(base) == [url |-> TRUE, ups |-> 0, dir |-> <<>>, base |-> base]

\* path.resolve(dir, value) for a relative reference
Resolve(dir, ref) ==
    Path(SubSeq(dir, 1, Len(dir) - ref.ups) \o ref.dir, ref.base)

\* path.resolve(outdir, filePath): an absolute second argument wins
ResolveIn(dir, p) == IF IsAbs(p) THEN p ELSE Path(dir \o p.dir, p.base)

\* path.relative(fromDir, to)
Relative(fromDir, to) ==
    LET k == CommonLen(fromDir, to.dir)
    IN Ref(Len(fromDir) - k, Drop(to.dir, k), to.base)

\* path.parse(p).ext
Ext(p) == p.base.e


(***************************************************************************)
(* src/utils (imported by index.ts, lines 22-34).                          *)
(***************************************************************************)
\* isURL: new URL(value) succeeds
isURL(value) == value.url

\* attributeToSelector: the selector [name="value"]
attributeToSelector(attribute) == [name |-> attribute.name, value |-> attribute.value]

\* findLastCommonPath: the deepest directory that holds every path
RECURSIVE CommonPrefix(_)
CommonPrefix(dirs) ==
    IF Len(dirs) = 1 THEN dirs[1]
    ELSE LET rest == CommonPrefix(Tail(dirs))
         IN SubSeq(rest, 1, CommonLen(dirs[1], rest))

findLastCommonPath(paths) ==
    IF paths = <<>> THEN <<>>
    ELSE CommonPrefix([i \in 1..Len(paths) |-> paths[i].dir])

\* removeCommonPath: the path with the common prefix cut off (a path that
\* does not start with it is returned as it is)
removeCommonPath(p, commonPath) ==
    IF IsPrefix(commonPath, p.dir) THEN Path(Drop(p.dir, Len(commonPath)), p.base)
    ELSE p

\* changeFileExtension(filePath, '.js') on a relative reference
changeFileExtension(ref, e) == [ref EXCEPT !.base.e = e]

(***************************************************************************)
(* Constants of index.ts.                                                  *)
(***************************************************************************)
attributesToSearch == <<"src", "href", "data", "action", "data-src", "lowsrc">>
extensionsToBuild == {"js", "jsx", "ts", "tsx"}
selectorsToExclude == {"a"}
StyleExtensions == {"css", "scss", "sass"}
HtmlExtensions == {"html", "htm"}

\* Bun.hash(content, 1).toString(16).slice(0, 8): one hash per content,
\* never the 0 that stands for "no hash in the name"
Hash(text) == text + 1

(***************************************************************************)
(* The inputs: a source tree, HTML documents and a configuration.          *)
(***************************************************************************)
SrcP == <<"/", "src", "p">>
SrcQ == <<"/", "src", "q">>
OutDir == <<"/", "out">>

EntryA == Path(SrcP, Base("a", "html"))
EntryB == Path(SrcQ, Base("b", "html"))
MainJs == Path(SrcP, Base("main", "js"))
MainCss == Path(SrcP, Base("main", "css"))
ImgP == Path(SrcP, Base("x", "png"))
ImgQ == Path(SrcQ, Base("x", "png"))

Elem(tag, attrs) == [tag |-> tag, attrs |-> attrs, inner |-> <<>>]

ElemList == <<
    Elem("script", "src" :> Ref(0, <<>>, Base("main", "js"))),
    Elem("link", "href" :> Ref(0, <<>>, Base("main", "css"))),
    Elem("img", ("src" :> Ref(0, <<>>, Base("x", "png")))
                 @@ ("lowsrc" :> Ref(0, <<>>, Base("gone", "png")))),
    Elem("img", "src" :> Ref(0, <<>>, Base("gone", "png"))),
    Elem("a", "href" :> Ref(0, <<>>, Base("x", "png"))),
    Elem("iframe", "src" :> Ref(1, <<"q">>, Base("b", "html"))),
    Elem("img", "src" :> Url(Base("x", "png"))),
    Elem("link", "href" :> Ref(0, <<>>, Base("main", "js")))
>>

Elements == {ElemList[i] : i \in 1..Len(ElemList)}

RECURSIVE SeqsUpTo(_, _)
SeqsUpTo(S, n) ==
    IF n = 0 THEN {<<>>}
    ELSE LET shorter == SeqsUpTo(S, n - 1)
         IN shorter \cup {Append(s, x) : s \in shorter, x \in S}

Docs == SeqsUpTo(Elements, MaxElems)
DocB == <<ElemList[3]>>

\* the text of an HTML document: one text per (elements, revision)
ElemIndex(e) == CHOOSE i \in 1..Len(ElemList) : ElemList[i] = e
RECURSIVE DocCode(_)
DocCode(elems) ==
    IF elems = <<>> THEN 0
    ELSE ElemIndex(Head(elems)) + (Len(ElemList) + 1) * DocCode(Tail(elems))
HtmlFile(elems, rev) == [text |-> 1 + rev + 2 * DocCode(elems), elems |-> elems]
TextFile(text) == [text |-> text, elems |-> <<>>]

SourceTree(docA, cssText) ==
    (EntryA :> HtmlFile(docA, 0)) @@ (EntryB :> HtmlFile(DocB, 0))
    @@ (MainJs :> TextFile(1)) @@ (MainCss :> TextFile(cssText))
    @@ (ImgP :> TextFile(1)) @@ (ImgQ :> TextFile(2))

\* naming templates: prefix/[dir]/[name]-[hash].[ext]
Template(prefix, dir, hash) == [prefix |-> prefix, dir |-> dir, hash |-> hash]
TDirName == Template(<<>>, TRUE, FALSE)              \* '[dir]/[name].[ext]'
TDirHash == Template(<<>>, TRUE, TRUE)               \* '[dir]/[name]-[hash].[ext]'
TAssets == Template(<<"assets">>, FALSE, TRUE)       \* 'assets/[name]-[hash].[ext]'
TJsDefault == Template(<<>>, FALSE, TRUE)            \* './[name]-[hash].[ext]'

NamingString(t) == [kind |-> "string", entry |-> t, chunk |-> t, asset |-> t]
NamingObject(e, c, a) == [kind |-> "object", entry |-> e, chunk |-> c, asset |-> a]
NamingUndefined == [kind |-> "undefined", entry |-> TDirName, chunk |-> TDirName,
                    asset |-> TDirName]

NamingChoices == {NamingUndefined, NamingString(TDirName), NamingString(TDirHash),
                  NamingObject(TDirName, TAssets, TAssets)}

Inline(css, js) == [css |-> css, js |-> js]
\* (inline, excludeSelectors) of the plugin options
OptionChoices == {<<Inline(FALSE, FALSE), {}>>, <<Inline(FALSE, FALSE), {"link"}>>,
                  <<Inline(TRUE, TRUE), {}>>, <<Inline(FALSE, TRUE), {}>>,
                  <<Inline(TRUE, FALSE), {}>>}

EntrypointChoices == {<<EntryA>>, <<EntryA, EntryB>>, <<EntryB, EntryA>>}


(***************************************************************************)
(* The graph: a Map<BunFile, FileDetails>.  A BunFile is an object: two    *)
(* calls of Bun.file(path) give two keys, so a key carries the identity of *)
(* the object (id) next to its name.  The map is kept as the sequence of   *)
(* its entries in insertion order.                                         *)
(***************************************************************************)
NoAttribute == [name |-> "", value |-> Ref(0, <<>>, Base("", ""))]
HasAttribute(details) == details.attribute.name # ""
NoContent == [def |-> FALSE, text |-> 0]
Content(text) == [def |-> TRUE, text |-> text]

RECURSIVE MaxId(_)
MaxId(m) ==
    IF m = <<>> THEN 0
    ELSE LET rest == MaxId(Tail(m))
         IN IF Head(m).file.id > rest THEN Head(m).file.id ELSE rest

\* Bun.file(name): a new object
BunFile(m, name) == [id |-> MaxId(m) + 1, name |-> name]

\* Map.prototype.set: an existing key keeps its place, a new key goes last
MapSet(m, file, details) ==
    IF \E i \in 1..Len(m) : m[i].file = file
    THEN [i \in 1..Len(m) |->
            IF m[i].file = file THEN [file |-> file, details |-> details] ELSE m[i]]
    ELSE Append(m, [file |-> file, details |-> details])

\* Map.prototype.delete
MapDelete(m, file) == SelectSeq(m, LAMBDA item : item.file # file)

\* getExtensionFiles (lines 220-234)
getExtensionFiles(m, extensions) ==
    SelectSeq(m, LAMBDA item : Ext(item.file.name) \in extensions)

(***************************************************************************)
(* getAllFiles (lines 125-218): the reference extractor.                   *)
(***************************************************************************)
\* lines 152-158: the selector :not(e1):not(e2)... matches an element
excludedSelector(el, excluded) == el.tag \notin excluded

\* lines 163-169: the first attribute of the priority list the element has
PresentAttributes(el) ==
    {i \in 1..Len(attributesToSearch) : attributesToSearch[i] \in DOMAIN el.attrs}
FirstAttribute(el) ==
    attributesToSearch[CHOOSE i \in PresentAttributes(el) :
                          \A j \in PresentAttributes(el) : i <= j]

\* the element handler without the existence test of line 177
ElementFilesUnchecked(source, filePath, hash, el) ==
    IF PresentAttributes(el) = {} THEN <<>>
    ELSE LET attributeName == FirstAttribute(el)
             attributeValue == el.attrs[attributeName]
             resolvedPath == Resolve(filePath.dir, attributeValue)
         IN IF isURL(attributeValue) THEN <<>>
            ELSE << [name |-> resolvedPath,
                     details |-> [kind |-> "chunk",
                                  attribute |-> [name |-> attributeName,
                                                 value |-> attributeValue],
                                  hash |-> hash,
                                  originalPath |-> resolvedPath,
                                  htmlImporter |-> filePath,
                                  content |-> NoContent]] >>

\* lines 159-212: the element handler; <<>> when the reference is dropped
ElementFiles(source, filePath, hash, el) ==
    IF PresentAttributes(el) = {} THEN <<>>
    ELSE LET attributeName == FirstAttribute(el)
             attributeValue == el.attrs[attributeName]
             resolvedPath == Resolve(filePath.dir, attributeValue)
         IN IF isURL(attributeValue) THEN <<>>
            ELSE IF resolvedPath \notin DOMAIN source THEN <<>>
            ELSE << [name |-> resolvedPath,
                     details |-> [kind |-> "chunk",
                                  attribute |-> [name |-> attributeName,
                                                 value |-> attributeValue],
                                  hash |-> hash,
                                  originalPath |-> resolvedPath,
                                  htmlImporter |-> filePath,
                                  content |-> NoContent]] >>

RECURSIVE ElementsFiles(_, _, _, _, _)
ElementsFiles(source, filePath, hash, elems, excluded) ==
    IF elems = <<>> THEN <<>>
    ELSE (IF excludedSelector(Head(elems), excluded)
          THEN ElementFiles(source, filePath, hash, Head(elems))
          ELSE <<>>)
         \o ElementsFiles(source, filePath, hash, Tail(elems), excluded)

getAllFiles(source, filePath, excluded) ==
    IF Ext(filePath) \notin HtmlExtensions THEN <<>>
    ELSE LET hash == Hash(source[filePath].text)
         IN << [name |-> filePath,
                details |-> [kind |-> "entry-point",
                             attribute |-> NoAttribute,
                             hash |-> hash,
                             originalPath |-> filePath,
                             htmlImporter |-> filePath,
                             content |-> NoContent]] >>
            \o ElementsFiles(source, filePath, hash, source[filePath].elems, excluded)

\* lines 812-814
Excluded(config) == config.excludeSelectors \cup selectorsToExclude
\* lines 815-817 (includeExtensions is not set)
buildExtensions == extensionsToBuild

\* lines 819-826: every entrypoint is scanned, the results are flattened
\* into a Map keyed by the BunFile objects
RECURSIVE FlatFiles(_, _, _)
FlatFiles(source, entrypoints, excluded) ==
    IF entrypoints = <<>> THEN <<>>
    ELSE getAllFiles(source, Head(entrypoints), excluded)
         \o FlatFiles(source, Tail(entrypoints), excluded)

GraphOf(source, config) ==
    LET flat == FlatFiles(source, config.entrypoints, Excluded(config))
    IN [i \in 1..Len(flat) |->
          [file |-> [id |-> i, name |-> flat[i].name], details |-> flat[i].details]]

(***************************************************************************)
(* Initial state: a plugin instance html(options) has been constructed     *)
(* (lines 727-730) and no build has run.                                   *)
(***************************************************************************)
EmptyTree == [p \in {} |-> TextFile(0)]
NoOutputs == [p \in {} |-> NoPath]
NoNames == [k \in {} |-> [as |-> NoPath, fd |-> NoPath]]

Init ==
    /\ \E docA \in Docs, cssText \in {0, 1}, naming \in NamingChoices,
          opt \in OptionChoices, entrypoints \in EntrypointChoices :
          /\ src = SourceTree(docA, cssText)
          /\ cfg = [entrypoints |-> entrypoints, naming |-> naming,
                    inline |-> opt[1], excludeSelectors |-> opt[2],
                    outdir |-> OutDir]
    /\ disk = EmptyTree
    /\ namedAs = NoNames
    /\ pathSaved = {}
    /\ files = <<>>
    /\ attributesToChange = <<>>
    /\ newFiles = <<>>
    /\ pc = "start"
    /\ idx = 0
    /\ builds = 0
    /\ edited = FALSE
    /\ discovered = <<>>
    /\ writes = <<>>
    /\ events = <<>>
    /\ toReplacePaths = <<>>
    /\ entrypointToOutput = NoOutputs
    /\ outputTexts = NoOutputs

\* html.setup, lines 803-827: the extractor builds the graph
Discover ==
    /\ pc = "start"
    /\ files' = GraphOf(src, cfg)
    /\ discovered' = files'
    /\ attributesToChange' = <<>>
    /\ newFiles' = <<>>
    /\ writes' = <<>>
    /\ events' = <<>>
    /\ idx' = 0
    /\ builds' = builds + 1
    /\ pc' = "js"
    /\ UNCHANGED <<jsVars, cfg, src, disk, namedAs, pathSaved, edited>>


(***************************************************************************)
(* Naming templates (renameFile lines 702-718, and the bundler's naming).  *)
(***************************************************************************)
\* naming.replaceAll('[dir]', dir).replaceAll('[hash]', hash)
\*       .replaceAll('[ext]', ext).replaceAll('[name]', name)
ApplyTemplate(t, rel, hash, ext) ==
    Path(t.prefix \o (IF t.dir THEN rel.dir ELSE <<>>),
         [n |-> rel.base.n, h |-> IF t.hash THEN hash ELSE 0, e |-> ext])

\* name.indexOf(details.hash) > -1
ContainsHash(name, hash) == name.base.h = hash

\* the text of the source file a BunFile names ('' when there is none)
FileText(source, name) == IF name \in DOMAIN source THEN source[name].text ELSE 0

(***************************************************************************)
(* forJsFiles (lines 283-502), without experimentalCss and splitting.      *)
(***************************************************************************)
\* the external bundler: the text it emits for a source text
Bundle(text) == text + 10

\* lines 304-315
JsNaming(config) ==
    IF config.naming.kind = "string" THEN config.naming.entry
    ELSE IF config.naming.kind = "object" THEN config.naming.chunk
    ELSE TJsDefault

\* lines 436-485: one Bun.build per entrypoint, its entry-point output is
\* written back under a new BunFile
RECURSIVE BuildEach(_, _, _, _, _)
BuildEach(m, jsFiles, commonPath, source, config) ==
    IF jsFiles = <<>> THEN m
    ELSE LET item == Head(jsFiles)
             outputText == Bundle(FileText(source, item.file.name))
             outputHash == Hash(outputText)
             outputPath == ApplyTemplate(JsNaming(config),
                                         removeCommonPath(item.file.name, commonPath),
                                         outputHash, "js")
             filePath == ResolveIn(commonPath, outputPath)
             next == MapSet(m, BunFile(m, filePath),
                            [content |-> Content(outputText),
                             attribute |-> item.details.attribute,
                             kind |-> item.details.kind,
                             hash |-> outputHash,
                             originalPath |-> item.details.originalPath,
                             htmlImporter |-> item.details.htmlImporter])
         IN BuildEach(next, Tail(jsFiles), commonPath, source, config)

\* lines 290-291: the script entries leave the graph
RECURSIVE DeleteAll(_, _)
DeleteAll(m, items) ==
    IF items = <<>> THEN m ELSE DeleteAll(MapDelete(m, Head(items).file), Tail(items))

forJsFilesResult(m, source, config) ==
    LET jsFiles == getExtensionFiles(m, buildExtensions)
        rest == DeleteAll(m, jsFiles)
        entrypoints == [i \in 1..Len(jsFiles) |-> jsFiles[i].file.name]
    IN IF entrypoints = <<>> THEN rest
       ELSE BuildEach(rest, jsFiles, findLastCommonPath(entrypoints), source, config)

ForJsFiles ==
    /\ pc = "js"
    /\ files' = forJsFilesResult(files, src, cfg)
    /\ pc' = "style"
    /\ UNCHANGED <<jsVars, cfg, src, disk, namedAs, pathSaved, attributesToChange, newFiles,
                   idx, builds, edited, discovered, writes, events>>

(***************************************************************************)
(* forStyleFiles (lines 504-539), config.minify unset: the minifier of     *)
(* line 260 returns its text.                                              *)
(***************************************************************************)
cssMinifier(text) == text
\* sass.compileString(content).css: the compiler's text for a source text
SassCompile(text) == IF text = 0 THEN 0 ELSE text + 20

\* line 517-518: contentToString(details.content) || file.text()
StyleSourceText(source, item) ==
    IF item.details.content.def /\ item.details.content.text # 0
    THEN item.details.content.text
    ELSE FileText(source, item.file.name)

RECURSIVE StyleEach(_, _, _)
StyleEach(m, cssFiles, source) ==
    IF cssFiles = <<>> THEN m
    ELSE LET item == Head(cssFiles)
             text == StyleSourceText(source, item)
             content == IF item.details.originalPath.base.e \in {"scss", "sass"}
                        THEN SassCompile(text) ELSE cssMinifier(text)
             next == MapSet(m, item.file,
                            [content |-> Content(content),
                             attribute |-> item.details.attribute,
                             kind |-> item.details.kind,
                             hash |-> Hash(content),
                             originalPath |-> item.details.originalPath,
                             htmlImporter |-> item.details.htmlImporter])
         IN StyleEach(next, Tail(cssFiles), source)

forStyleFilesResult(m, source) ==
    StyleEach(m, getExtensionFiles(m, StyleExtensions), source)

ForStyleFiles ==
    /\ pc = "style"
    /\ files' = forStyleFilesResult(files, src)
    /\ pc' = "html"
    /\ UNCHANGED <<jsVars, cfg, src, disk, namedAs, pathSaved, attributesToChange, newFiles,
                   idx, builds, edited, discovered, writes, events>>

(***************************************************************************)
(* processHtmlFiles (lines 559-649): inlining and asset classification.    *)
(***************************************************************************)
Rule(type, selector, text, target, toJs) ==
    [type |-> type, selector |-> selector, text |-> text, target |-> target,
     toJs |-> toJs]

\* lines 583-588 and 607-612
InlineCss(config) == config.inline.css
InlineJs(config) == config.inline.js

\* lines 593-598: the text the inline style rule puts into the element
InlineCssText(source, item) ==
    LET text == StyleSourceText(source, item)
    IN IF Ext(item.file.name) \in {"scss", "sass"} THEN SassCompile(text) ELSE text

\* line 626: content.replaceAll(/(<)(\/script>)/g, '\\x3C$2'); the odd texts
\* are the ones that hold a literal </script>
HasEndTag(text) == text % 2 = 1
EscapeScript(text) == IF HasEndTag(text) THEN text + 100 ELSE text

\* lines 618-626
InlineJsText(source, item) ==
    EscapeScript(IF item.details.content.def THEN item.details.content.text
                 ELSE FileText(source, item.file.name))

\* lines 574-645, one pass over the graph for one HTML file; the pass only
\* deletes or replaces the entry it is visiting
RECURSIVE HtmlPass(_, _, _, _)
HtmlPass(state, todo, source, config) ==
    IF todo = <<>> THEN state
    ELSE LET item == Head(todo)
             file == item.file
             details == item.details
             selector == attributeToSelector(details.attribute)
             next ==
               IF ~HasAttribute(details) THEN state
               ELSE IF Ext(file.name) \in StyleExtensions
               THEN IF InlineCss(config)
                    THEN [files |-> MapDelete(state.files, file),
                          rules |-> Append(state.rules,
                                Rule("inlineCss", selector,
                                     InlineCssText(source, item), NoPath, FALSE))]
                    ELSE state
               ELSE IF Ext(file.name) \in buildExtensions
               THEN IF InlineJs(config)
                    THEN [files |-> MapDelete(state.files, file),
                          rules |-> Append(state.rules,
                                Rule("inlineJs", selector,
                                     InlineJsText(source, item), NoPath, FALSE))]
                    ELSE state
               ELSE [files |-> MapSet(state.files, file,
                                  [details EXCEPT
                                     !.hash = Hash(FileText(source, file.name)),
                                     !.kind = "asset"]),
                     rules |-> state.rules]
         IN HtmlPass(next, Tail(todo), source, config)

\* lines 573: the pass is repeated for every HTML file of the graph
RECURSIVE HtmlPasses(_, _, _, _)
HtmlPasses(state, n, source, config) ==
    IF n = 0 THEN state
    ELSE HtmlPasses(HtmlPass(state, state.files, source, config), n - 1, source, config)

processHtmlFilesResult(m, source, config) ==
    HtmlPasses([files |-> m, rules |-> <<>>],
               Len(getExtensionFiles(m, HtmlExtensions)), source, config)

ProcessHtmlFiles ==
    /\ pc = "html"
    /\ LET r == processHtmlFilesResult(files, src, cfg)
       IN /\ files' = r.files
          /\ attributesToChange' = r.rules
    /\ pc' = "naming"
    /\ UNCHANGED <<jsVars, cfg, src, disk, namedAs, pathSaved, newFiles,
                   idx, builds, edited, discovered, writes, events>>


(***************************************************************************)
(* keepNamedAs (lines 651-672) and renameFile (lines 674-725).             *)
(* _namedAs[base][dir] = {as, fd} is kept as a function of <<base, dir>>.  *)
(***************************************************************************)
NameKey(parsedOriginPath) == <<parsedOriginPath.base, parsedOriginPath.dir>>

\* keepNamedAs that never stores the record of lines 667-668
keepNamedAsNoRecord(parsedOriginPath, parsedNewPath, resolved, names) == names

\* lines 660-670: the record is written the first time, and only when the
\* new path differs from the original one
keepNamedAsRecords(parsedOriginPath, parsedNewPath, resolved, names) ==
    IF NameKey(parsedOriginPath) \notin DOMAIN names /\ parsedNewPath # parsedOriginPath
    THEN names @@ (NameKey(parsedOriginPath) :> [as |-> parsedNewPath, fd |-> resolved])
    ELSE names

\* the namedAs after the call and the value returned (line 671)
keepNamedAs(parsedOriginPath, parsedNewPath, resolved, names) ==
    LET after == keepNamedAsRecords(parsedOriginPath, parsedNewPath, resolved, names)
    IN [names |-> after,
        found |-> NameKey(parsedOriginPath) \in DOMAIN after,
        fd |-> IF NameKey(parsedOriginPath) \in DOMAIN after
               THEN after[NameKey(parsedOriginPath)].fd ELSE NoPath]

\* lines 683-698: the template of an artifact kind (options.naming.css unset)
NamingFor(config, kind) ==
    IF kind = "entry-point" THEN config.naming.entry
    ELSE IF kind = "chunk" THEN config.naming.chunk
    ELSE config.naming.asset

\* the name of the BunFile returned, and the namedAs after the call
renameFile(config, name, hash, kind, sharedPath, names) ==
    IF kind \in {"sourcemap", "bytecode"} \/ config.naming.kind = "undefined"
    THEN [names |-> names, name |-> name]
    ELSE LET parsedPath == removeCommonPath(name, sharedPath)
             ext == IF parsedPath.base.e \in {"scss", "sass"} THEN "css"
                    ELSE parsedPath.base.e
             newPath == ApplyTemplate(NamingFor(config, kind), parsedPath, hash, ext)
             resolved == ResolveIn(sharedPath, newPath)
             named == keepNamedAs(parsedPath, newPath, resolved, names)
         IN [names |-> named.names,
             name |-> IF named.found THEN named.fd ELSE resolved]

(***************************************************************************)
(* html.setup lines 846-907: every graph entry gets its output identity.   *)
(***************************************************************************)
FileContent(source, item) ==
    IF item.details.content.def
    THEN [blob |-> FALSE, text |-> item.details.content.text, from |-> NoPath]
    ELSE [blob |-> TRUE, text |-> FileText(source, item.file.name),
          from |-> item.file.name]

NewFile(name, item, content) ==
    [file |-> name,
     details |-> [content |-> content,
                  attribute |-> item.details.attribute,
                  kind |-> item.details.kind,
                  hash |-> item.details.hash,
                  originalPath |-> item.details.originalPath,
                  htmlImporter |-> item.details.htmlImporter]]

\* lines 856-881: a compiled script keeps the bundler's name
NameScript(config, item, commonPath, names) ==
    LET parsedNewPath == removeCommonPath(item.file.name, commonPath)
        filePath == ResolveIn(config.outdir, parsedNewPath)
    IN IF item.details.originalPath = NoPath
       THEN [names |-> names, name |-> filePath]
       ELSE LET named == keepNamedAs(
                    removeCommonPath(item.details.originalPath, commonPath),
                    parsedNewPath, filePath, names)
            IN [names |-> named.names,
                name |-> IF named.found THEN named.fd ELSE filePath]

\* lines 883-906: every other file goes through renameFile
NameOther(config, item, commonPath, names) ==
    LET renamed == renameFile(config, item.file.name, item.details.hash,
                              item.details.kind, commonPath, names)
    IN [names |-> renamed.names,
        name |-> ResolveIn(config.outdir, removeCommonPath(renamed.name, commonPath))]

NameOne(config, item, commonPath, names) ==
    IF Ext(item.file.name) \in buildExtensions
    THEN NameScript(config, item, commonPath, names)
    ELSE NameOther(config, item, commonPath, names)

RECURSIVE NameEach(_, _, _, _, _)
NameEach(state, todo, commonPath, source, config) ==
    IF todo = <<>> THEN state
    ELSE LET one == NameOne(config, Head(todo), commonPath, state.names)
         IN NameEach([names |-> one.names,
                      out |-> Append(state.out,
                                     NewFile(one.name, Head(todo),
                                             FileContent(source, Head(todo))))],
                     Tail(todo), commonPath, source, config)

\* lines 846-847
mapIntoKeys(m) == [i \in 1..Len(m) |-> m[i].file.name]

NameFilesResult(m, source, config, names) ==
    NameEach([names |-> names, out |-> <<>>], m,
             findLastCommonPath(mapIntoKeys(m)), source, config)

\* lines 913-915 and 954-956: the two filters over newFiles
NonEntries(nf) == SelectSeq(nf, LAMBDA item : item.details.kind # "entry-point")
Entries(nf) == SelectSeq(nf, LAMBDA item : item.details.kind = "entry-point")

NameFiles ==
    /\ pc = "naming"
    /\ LET r == NameFilesResult(files, src, cfg, namedAs)
       IN /\ newFiles' = r.out
          /\ namedAs' = r.names
          /\ pc' = IF NonEntries(r.out) = <<>> THEN "entry" ELSE "nonentry"
    /\ idx' = 0
    /\ UNCHANGED <<jsVars, cfg, src, disk, pathSaved, files, attributesToChange,
                   builds, edited, discovered, writes, events>>


(***************************************************************************)
(* save (lines 732-799): the write-once writer.  The texts of this model   *)
(* hold no path literal, so the literal pass of lines 744-797 leaves the   *)
(* body as it is.                                                          *)
(***************************************************************************)
\* save without the ledger test of line 738
AlreadySavedNever(name, saved) == FALSE

\* line 738: the ledger says the path was saved already
AlreadySaved(name, saved) == name \in saved

\* the bytes Bun.write puts at the path
Body(source, content) ==
    IF content.blob THEN source[content.from] ELSE TextFile(content.text)

\* a writer without the skip of lines 918 and 969
SkipWriteNever(name, hash, tree) == FALSE

\* lines 918 and 969: the target holds its hash and a file exists there
SkipWrite(name, hash, tree) == ContainsHash(name, hash) /\ name \in DOMAIN tree

\* line 917: !details.content
NoBody(content) == ~content.blob /\ content.text = 0

Write(name, body) == [name |-> name, body |-> body]

(***************************************************************************)
(* HTMLRewriter: every rule whose selector matches the element as parsed   *)
(* runs on it, in the order of registration.                               *)
(***************************************************************************)
SelectorMatches(selector, el) ==
    selector.name \in DOMAIN el.attrs /\ el.attrs[selector.name] = selector.value

WithoutAttribute(attrs, name) == [k \in (DOMAIN attrs) \ {name} |-> attrs[k]]
NoAttrs == [k \in {} |-> Ref(0, <<>>, Base("", ""))]

\* a handler that leaves an attribute an earlier rule has rewritten
SetRuleFirstWins(rule, cur, fileLocation) ==
    IF rule.selector.name \notin DOMAIN cur.el.attrs THEN cur
    ELSE IF cur.el.attrs[rule.selector.name] # rule.selector.value THEN cur
    ELSE LET rel == Relative(fileLocation.dir, rule.target)
             filePath == IF rule.toJs THEN changeFileExtension(rel, "js") ELSE rel
         IN [cur EXCEPT !.el.attrs[rule.selector.name] = filePath]

\* lines 936-949: the handler of a written file
SetRule(rule, cur, fileLocation) ==
    IF rule.selector.name \notin DOMAIN cur.el.attrs THEN cur
    ELSE LET rel == Relative(fileLocation.dir, rule.target)
             filePath == IF rule.toJs THEN changeFileExtension(rel, "js") ELSE rel
         IN [cur EXCEPT !.el.attrs[rule.selector.name] = filePath]

\* lines 592-602: el.replace(<style>content</style>)
InlineCssRule(rule, cur) ==
    [el |-> [tag |-> "style", attrs |-> NoAttrs, inner |-> <<rule.text>>],
     replaced |-> TRUE]

\* lines 617-631: el.removeAttribute('src'); el.setInnerContent(content)
InlineJsRule(rule, cur) ==
    [cur EXCEPT !.el.attrs = WithoutAttribute(cur.el.attrs, "src"),
                !.el.inner = <<rule.text>>]

\* a replaced element is emitted as its replacement whatever runs later
RunRule(rule, cur, fileLocation) ==
    IF rule.type = "inlineCss" THEN InlineCssRule(rule, cur)
    ELSE IF cur.replaced THEN cur
    ELSE IF rule.type = "inlineJs" THEN InlineJsRule(rule, cur)
    ELSE SetRule(rule, cur, fileLocation)

RECURSIVE RunRules(_, _, _, _)
RunRules(rules, original, cur, fileLocation) ==
    IF rules = <<>> THEN cur
    ELSE RunRules(Tail(rules), original,
                  IF SelectorMatches(Head(rules).selector, original)
                  THEN RunRule(Head(rules), cur, fileLocation) ELSE cur,
                  fileLocation)

\* lines 958-961: rewriter.transform(fileContents)
Transform(elems, rules, fileLocation) ==
    [i \in 1..Len(elems) |->
        RunRules(rules, elems[i], [el |-> elems[i], replaced |-> FALSE],
                 fileLocation).el]

(***************************************************************************)
(* html.setup lines 913-952: one iteration of the non-entry loop.          *)
(***************************************************************************)
Event(step, kind, name, origin) ==
    [step |-> step, kind |-> kind, name |-> name, origin |-> origin]

\* an entry-point loop that does not wait for the non-entry loop
EntryLoopRunsEarly == pc \in {"nonentry", "entry"}

\* lines 913 and 954: the loop over the non-entry files is awaited before
\* the loop over the entries starts
NonEntryLoopRuns == pc = "nonentry"
EntryLoopRuns == pc = "entry"

WriteNonEntry ==
    /\ NonEntryLoopRuns
    /\ idx < Len(NonEntries(newFiles))
    /\ LET item == NonEntries(newFiles)[idx + 1]
           name == item.file
           details == item.details
           written == ~NoBody(details.content)
                      /\ ~SkipWrite(name, details.hash, disk)
       IN /\ IF written /\ ~AlreadySaved(name, pathSaved)
             THEN /\ disk' = [p \in (DOMAIN disk) \cup {name} |->
                                IF p = name THEN Body(src, details.content)
                                ELSE disk[p]]
                  /\ writes' = Append(writes, Write(name, Body(src, details.content)))
             ELSE UNCHANGED <<disk, writes>>
          /\ pathSaved' = IF written THEN pathSaved \cup {name} ELSE pathSaved
          /\ attributesToChange' =
                IF written /\ HasAttribute(details)
                THEN Append(attributesToChange,
                            Rule("set", attributeToSelector(details.attribute), 0,
                                 name, Ext(name) \in buildExtensions))
                ELSE attributesToChange
          /\ events' = Append(events,
                Event(IF NoBody(details.content) THEN "empty"
                      ELSE IF SkipWrite(name, details.hash, disk) THEN "skip"
                      ELSE IF AlreadySaved(name, pathSaved) THEN "saved" ELSE "write",
                      details.kind, name, details.originalPath))
    /\ idx' = IF idx + 1 = Len(NonEntries(newFiles)) THEN 0 ELSE idx + 1
    /\ pc' = IF idx + 1 = Len(NonEntries(newFiles)) THEN "entry" ELSE pc
    /\ UNCHANGED <<jsVars, cfg, src, namedAs, files, newFiles, builds, edited, discovered>>

(***************************************************************************)
(* html.setup lines 954-979: one iteration of the entry-point loop.        *)
(***************************************************************************)
\* lines 957-961 (config.minify unset)
EmittedHtml(source, item, rules) ==
    [text |-> item.details.content.text,
     elems |-> Transform(source[item.details.content.from].elems, rules, item.file)]

WriteEntry ==
    /\ EntryLoopRuns
    /\ idx < Len(Entries(newFiles))
    /\ LET item == Entries(newFiles)[idx + 1]
           name == item.file
           details == item.details
           fileContents == EmittedHtml(src, item, attributesToChange)
           written == ~SkipWrite(name, details.hash, disk)
       IN /\ IF written /\ ~AlreadySaved(name, pathSaved)
             THEN /\ disk' = [p \in (DOMAIN disk) \cup {name} |->
                                IF p = name THEN fileContents ELSE disk[p]]
                  /\ writes' = Append(writes, Write(name, fileContents))
             ELSE UNCHANGED <<disk, writes>>
          /\ pathSaved' = IF written THEN pathSaved \cup {name} ELSE pathSaved
          /\ events' = Append(events,
                Event(IF SkipWrite(name, details.hash, disk) THEN "skip"
                      ELSE IF AlreadySaved(name, pathSaved) THEN "saved" ELSE "write",
                      details.kind, name, details.originalPath))
    /\ idx' = IF idx + 1 = Len(Entries(newFiles)) THEN 0 ELSE idx + 1
    /\ pc' = IF idx + 1 = Len(Entries(newFiles)) THEN "done" ELSE pc
    /\ UNCHANGED <<jsVars, cfg, src, namedAs, files, attributesToChange, newFiles, builds,
                   edited, discovered>>

(***************************************************************************)
(* Between two builds: the sources may be edited, and the next build runs  *)
(* with the same plugin object or with a new html(options).                *)
(***************************************************************************)
EditHtml ==
    /\ pc = "done" /\ builds < MaxBuilds /\ ~edited
    /\ src' = [src EXCEPT ![EntryA] = HtmlFile(src[EntryA].elems, 1)]
    /\ edited' = TRUE
    /\ UNCHANGED <<jsVars, cfg, disk, namedAs, pathSaved, files, attributesToChange, newFiles,
                   pc, idx, builds, discovered, writes, events>>

EditCss ==
    /\ pc = "done" /\ builds < MaxBuilds /\ ~edited
    /\ src' = [src EXCEPT ![MainCss] = TextFile(2)]
    /\ edited' = TRUE
    /\ UNCHANGED <<jsVars, cfg, disk, namedAs, pathSaved, files, attributesToChange, newFiles,
                   pc, idx, builds, discovered, writes, events>>

\* Bun.build again with the same plugin object: the closure state stays
BuildAgain ==
    /\ pc = "done" /\ builds < MaxBuilds
    /\ pc' = "start"
    /\ UNCHANGED <<jsVars, cfg, src, disk, namedAs, pathSaved, files, attributesToChange,
                   newFiles, idx, builds, edited, discovered, writes, events>>

\* html(options) again (lines 727-730): a new closure
NewPlugin ==
    /\ pc = "done" /\ builds < MaxBuilds
    /\ namedAs' = NoNames
    /\ pathSaved' = {}
    /\ pc' = "start"
    /\ UNCHANGED <<jsVars, cfg, src, disk, files, attributesToChange, newFiles, idx, builds,
                   edited, discovered, writes, events>>

Next ==
    \/ Discover
    \/ ForJsFiles
    \/ ForStyleFiles
    \/ ProcessHtmlFiles
    \/ NameFiles
    \/ WriteNonEntry
    \/ WriteEntry
    \/ EditHtml
    \/ EditCss
    \/ BuildAgain
    \/ NewPlugin

Spec == Init /\ [][Next]_vars


(***************************************************************************)
(* A build with code-splitting (build.config.splitting): forJsFiles with   *)
(* the custom resolver, the queue of external specifiers and the rewrite   *)
(* of the import literals (lines 283-502), and the writer with its literal *)
(* pass (save, lines 732-799).  The text of a script is the sequence of    *)
(* the import literals it holds; the rest of its code is left out.         *)
(***************************************************************************)
\* from "x", from"x" and require("x")
ImportForms == {"from ", "from", "require"}
Literal(form, value) == [form |-> form, value |-> value]

tempDirPath == <<"/", "tmp", "bun-build">>

ScriptA == Path(SrcP, Base("a", "js"))
ScriptB == Path(SrcP, Base("b", "js"))
ScriptC == Path(SrcP \o <<"lib">>, Base("c", "js"))

SpecifierB == Ref(0, <<>>, Base("b", "js"))          \* "./b.js"
SpecifierC == Ref(0, <<"lib">>, Base("c", "js"))     \* "./lib/c.js"
SpecifierUpB == Ref(1, <<>>, Base("b", "js"))        \* "../b.js"

SpecifierList == <<SpecifierB, SpecifierC, SpecifierUpB>>
FormList == <<"from ", "from", "require">>

\* the import literals a.js may hold, and the texts made of them
ImportsOfA == {Literal(f, v) : f \in ImportForms, v \in {SpecifierB, SpecifierC}}
MaxImports == 2
ImportTexts == SeqsUpTo(ImportsOfA, MaxImports)
ImportsOfC == {<<>>, <<Literal("from ", SpecifierUpB)>>}

ScriptElem(value) == Elem("script", "src" :> value)
ScriptDocs == {<<ScriptElem(Ref(0, <<>>, Base("a", "js"))), ScriptElem(SpecifierB),
                 ScriptElem(SpecifierC)>>,
               <<ScriptElem(Ref(0, <<>>, Base("a", "js"))), ScriptElem(SpecifierB)>>}

ScriptTree(doc, importsA, importsC) ==
    (EntryA :> [text |-> 1, elems |-> doc])
    @@ (ScriptA :> TextFile(importsA)) @@ (ScriptB :> TextFile(<<>>))
    @@ (ScriptC :> TextFile(importsC))

\* Bun.hash(outputText, 1) of line 472: one hash per text
LiteralCode(lit) ==
    (CHOOSE i \in 1..Len(SpecifierList) : SpecifierList[i] = lit.value)
    + Len(SpecifierList) * ((CHOOSE j \in 1..Len(FormList) : FormList[j] = lit.form) - 1)
RECURSIVE TextCode(_)
TextCode(text) ==
    IF text = <<>> THEN 0 ELSE LiteralCode(Head(text)) + 10 * TextCode(Tail(text))
TextHash(text) == 1 + TextCode(text)

\* lines 829-833: a preprocessor that hands every script back with the text
\* it read (Processor of src/utils)
Preprocess(m, source, config) ==
    IF ~config.preprocessor THEN m
    ELSE [i \in 1..Len(m) |->
            IF Ext(m[i].file.name) \in buildExtensions
            THEN [m[i] EXCEPT !.details.content =
                                 Content(FileText(source, m[i].file.name))]
            ELSE m[i]]

\* lines 321-323
requiresTempDir(jsFiles) ==
    \E i \in 1..Len(jsFiles) : jsFiles[i].details.content.def

\* lines 330-333: the entrypoints handed to the bundler
StagedEntrypoints(jsFiles, commonPath) ==
    [i \in 1..Len(jsFiles) |->
        IF requiresTempDir(jsFiles)
        THEN ResolveIn(tempDirPath, removeCommonPath(jsFiles[i].file.name, commonPath))
        ELSE jsFiles[i].file.name]

\* line 332: what Bun.write puts into the temporary directory
StagedText(item, source) ==
    IF item.details.content.def THEN item.details.content.text
    ELSE FileText(source, item.file.name)

\* the file system the bundler reads: the source tree and the staged copies
ModuleTexts(jsFiles, entries, source) ==
    LET staged == IF requiresTempDir(jsFiles)
                  THEN {entries[i] : i \in 1..Len(entries)} ELSE {}
    IN [p \in staged \cup DOMAIN source |->
          IF p \in staged
          THEN StagedText(jsFiles[CHOOSE i \in 1..Len(entries) : entries[i] = p], source)
          ELSE source[p].text]

\* lines 345-436, for a relative specifier: the path returned, whether the
\* import is external, and with it queued
customResolver(importer, specifier, staged, fs, config) ==
    LET tempPath == Resolve(tempDirPath, specifier)
        resolved == Resolve(importer.dir, specifier)
    IN IF isURL(specifier) THEN [path |-> NoPath, external |-> FALSE]
       ELSE IF tempPath \in staged THEN [path |-> tempPath, external |-> FALSE]
       ELSE IF resolved \notin DOMAIN fs THEN [path |-> NoPath, external |-> FALSE]
       ELSE [path |-> resolved, external |-> config.splitting]

\* Bun.build of one entrypoint: an external import stays in the output as
\* it was written and is queued (lines 397-404), any other import is
\* replaced by the module it names
RECURSIVE BundleImports(_, _, _, _, _)
BundleImports(importer, text, staged, fs, config) ==
    IF text = <<>> THEN [text |-> <<>>, queue |-> <<>>]
    ELSE LET lit == Head(text)
             r == customResolver(importer, lit.value, staged, fs, config)
             here == IF r.external
                     THEN [text |-> <<lit>>,
                           queue |-> <<[from |-> importer, resolved |-> r.path,
                                        path |-> lit.value]>>]
                     ELSE IF r.path = NoPath THEN [text |-> <<>>, queue |-> <<>>]
                     ELSE BundleImports(r.path, fs[r.path], staged, fs, config)
             rest == BundleImports(importer, Tail(text), staged, fs, config)
         IN [text |-> here.text \o rest.text, queue |-> here.queue \o rest.queue]

\* lines 436-485 with the resolver: one Bun.build per entrypoint
RECURSIVE BuildSplitting(_, _, _, _, _, _, _)
BuildSplitting(state, index, jsFiles, entries, commonPath, fs, config) ==
    IF index > Len(jsFiles) THEN state
    ELSE LET item == jsFiles[index]
             staged == IF requiresTempDir(jsFiles)
                       THEN {entries[i] : i \in 1..Len(entries)} ELSE {}
             bundle == BundleImports(entries[index], fs[entries[index]], staged, fs,
                                     config)
             outputText == bundle.text
             outputHash == TextHash(outputText)
             outputPath == ApplyTemplate(JsNaming(config),
                                         removeCommonPath(item.file.name, commonPath),
                                         outputHash, "js")
             filePath == ResolveIn(commonPath, outputPath)
         IN BuildSplitting(
              [files |-> MapSet(state.files, BunFile(state.files, filePath),
                                [content |-> Content(outputText),
                                 attribute |-> item.details.attribute,
                                 kind |-> item.details.kind,
                                 hash |-> outputHash,
                                 originalPath |-> item.details.originalPath,
                                 htmlImporter |-> item.details.htmlImporter]),
               queue |-> state.queue \o bundle.queue,
               outputs |-> (item.file.name :> filePath) @@ state.outputs,
               texts |-> (filePath :> outputText) @@ state.texts],
              index + 1, jsFiles, entries, commonPath, fs, config)

\* lines 497-500: the three replaceAll calls
ReplaceSpecifier(text, specifier, newPath) ==
    [i \in 1..Len(text) |->
        IF text[i].form \in ImportForms /\ text[i].value = specifier
        THEN Literal(text[i].form, newPath) ELSE text[i]]

\* lines 489-491: toReplacePaths.find(...), the first queued item whose
\* importer has this file as its output
QueuedFor(queue, outputs, name) ==
    {q \in 1..Len(queue) :
        queue[q].from \in DOMAIN outputs /\ outputs[queue[q].from] = name}

\* lines 488-501: one iteration of the rewrite loop
ReplaceQueued(item, queue, outputs) ==
    IF QueuedFor(queue, outputs, item.file.name) = {} THEN item
    ELSE LET found == QueuedFor(queue, outputs, item.file.name)
             toReplace == queue[CHOOSE q \in found : \A o \in found : q <= o]
         IN IF toReplace.resolved \notin DOMAIN outputs THEN item
            ELSE LET newPath == Relative(outputs[toReplace.from].dir,
                                         outputs[toReplace.resolved])
                 IN [item EXCEPT !.details.content =
                        Content(ReplaceSpecifier(item.details.content.text,
                                                 toReplace.path, newPath))]

forJsFilesSplitting(m, source, config) ==
    LET jsFiles == getExtensionFiles(m, buildExtensions)
        rest == DeleteAll(m, jsFiles)
        commonPath == findLastCommonPath([i \in 1..Len(jsFiles) |-> jsFiles[i].file.name])
        entries == StagedEntrypoints(jsFiles, commonPath)
        built == BuildSplitting([files |-> rest, queue |-> <<>>, outputs |-> NoOutputs,
                                 texts |-> NoOutputs],
                                1, jsFiles, entries, commonPath,
                                ModuleTexts(jsFiles, entries, source), config)
    IN IF jsFiles = <<>>
       THEN [files |-> rest, queue |-> <<>>, outputs |-> NoOutputs, texts |-> NoOutputs]
       ELSE [built EXCEPT !.files =
               [i \in 1..Len(built.files) |->
                   ReplaceQueued(built.files[i], built.queue, built.outputs)]]

ForJsFilesSplitting ==
    /\ pc = "js"
    /\ LET r == forJsFilesSplitting(Preprocess(files, src, cfg), src, cfg)
       IN /\ files' = r.files
          /\ toReplacePaths' = r.queue
          /\ entrypointToOutput' = r.outputs
          /\ outputTexts' = r.texts
    /\ pc' = "style"
    /\ UNCHANGED <<cfg, src, disk, namedAs, pathSaved, attributesToChange, newFiles,
                   idx, builds, edited, discovered, writes, events>>

\* line 746: path.relative(outdir, path.parse(name).dir)
HostDir(name, outdir) ==
    IF IsPrefix(outdir, name.dir) THEN Drop(name.dir, Len(outdir)) ELSE name.dir

\* the entries of _namedAs a quoted path may be replaced by (lines 749-795):
\* its base name is the recorded one and it names the recorded directory,
\* as written (line 787) or seen from the directory of the file that holds
\* it (lines 789-790).  The recorded directory of a file at the top is '.'
\* (path.join of line 659), which no parsed directory equals.
NamedFor(value, names, hostDir) ==
    {k \in DOMAIN names :
        /\ k[1] = value.base
        /\ \/ value.ups = 0 /\ value.dir = k[2]
           \/ /\ k[2] # <<>>
              /\ value.ups <= Len(hostDir)
              /\ Resolve(hostDir, value).dir = k[2]}

\* lines 782-794: the path put in place of the quoted one
NamedPath(value, names, hostDir) ==
    LET k == CHOOSE k \in NamedFor(value, names, hostDir) : TRUE
        newPath == names[k].as
    IN IF value.ups = 0 /\ value.dir = k[2]
       THEN Ref(0, newPath.dir, newPath.base)
       ELSE Relative(hostDir, newPath)

\* save, lines 740-798: the text Bun.write gets
saveText(text, names, hostDir, keepOriginalPaths) ==
    IF keepOriginalPaths THEN text
    ELSE [i \in 1..Len(text) |->
            IF ~isURL(text[i].value) /\ NamedFor(text[i].value, names, hostDir) # {}
            THEN Literal(text[i].form, NamedPath(text[i].value, names, hostDir))
            ELSE text[i]]

\* lines 913-952 for a compiled script: one iteration of the non-entry loop
WriteScript ==
    /\ NonEntryLoopRuns
    /\ idx < Len(NonEntries(newFiles))
    /\ LET item == NonEntries(newFiles)[idx + 1]
           name == item.file
           details == item.details
           written == ~SkipWrite(name, details.hash, disk)
           body == TextFile(saveText(details.content.text, namedAs,
                                     HostDir(name, cfg.outdir), cfg.keepOriginalPaths))
       IN /\ IF written /\ ~AlreadySaved(name, pathSaved)
             THEN /\ disk' = [p \in (DOMAIN disk) \cup {name} |->
                                IF p = name THEN body ELSE disk[p]]
                  /\ writes' = Append(writes, Write(name, body))
             ELSE UNCHANGED <<disk, writes>>
          /\ pathSaved' = IF written THEN pathSaved \cup {name} ELSE pathSaved
          /\ attributesToChange' =
                IF written /\ HasAttribute(details)
                THEN Append(attributesToChange,
                            Rule("set", attributeToSelector(details.attribute), 0,
                                 name, Ext(name) \in buildExtensions))
                ELSE attributesToChange
          /\ events' = Append(events,
                Event(IF SkipWrite(name, details.hash, disk) THEN "skip"
                      ELSE IF AlreadySaved(name, pathSaved) THEN "saved" ELSE "write",
                      details.kind, name, details.originalPath))
    /\ idx' = IF idx + 1 = Len(NonEntries(newFiles)) THEN 0 ELSE idx + 1
    /\ pc' = IF idx + 1 = Len(NonEntries(newFiles)) THEN "entry" ELSE pc
    /\ UNCHANGED <<jsVars, cfg, src, namedAs, files, newFiles, builds, edited,
                   discovered>>

InitJs ==
    /\ \E doc \in ScriptDocs, importsA \in ImportTexts, importsC \in ImportsOfC,
          naming \in {NamingUndefined, NamingString(TDirName), NamingString(TDirHash)},
          splitting \in BOOLEAN, keepOriginalPaths \in BOOLEAN,
          preprocessor \in BOOLEAN :
          /\ src = ScriptTree(doc, importsA, importsC)
          /\ cfg = [entrypoints |-> <<EntryA>>, naming |-> naming,
                    inline |-> Inline(FALSE, FALSE), excludeSelectors |-> {},
                    outdir |-> OutDir, splitting |-> splitting,
                    keepOriginalPaths |-> keepOriginalPaths,
                    preprocessor |-> preprocessor]
    /\ disk = EmptyTree
    /\ namedAs = NoNames
    /\ pathSaved = {}
    /\ files = <<>>
    /\ attributesToChange = <<>>
    /\ newFiles = <<>>
    /\ pc = "start"
    /\ idx = 0
    /\ builds = 0
    /\ edited = FALSE
    /\ discovered = <<>>
    /\ writes = <<>>
    /\ events = <<>>
    /\ toReplacePaths = <<>>
    /\ entrypointToOutput = NoOutputs
    /\ outputTexts = NoOutputs

NextJs ==
    \/ Discover
    \/ ForJsFilesSplitting
    \/ ForStyleFiles
    \/ ProcessHtmlFiles
    \/ NameFiles
    \/ WriteScript
    \/ WriteEntry

SpecJs == InitJs /\ [][NextJs]_vars


(***************************************************************************)
(* Vocabulary of the properties.                                           *)
(***************************************************************************)
\* the element of entry e is scanned and its reference names a source file
RefValue(el) == el.attrs[FirstAttribute(el)]
RefersToFile(e, el) ==
    /\ excludedSelector(el, Excluded(cfg))
    /\ PresentAttributes(el) # {}
    /\ ~isURL(RefValue(el))
    /\ Resolve(e.dir, RefValue(el)) \in DOMAIN src
RefersToMissing(e, el) ==
    /\ excludedSelector(el, Excluded(cfg))
    /\ PresentAttributes(el) # {}
    /\ ~isURL(RefValue(el))
    /\ Resolve(e.dir, RefValue(el)) \notin DOMAIN src
RefTarget(e, el) == Resolve(e.dir, RefValue(el))

\* the inline option covers the kind of the file
CoveredByInline(path) ==
    \/ Ext(path) \in StyleExtensions /\ cfg.inline.css
    \/ Ext(path) \in buildExtensions /\ cfg.inline.js

\* the entry-point loop wrote the HTML of an entry in this build
EmittedEntries == {k \in 1..Len(events) :
                     events[k].kind = "entry-point" /\ events[k].step = "write"}
NonEntryEvents == {k \in 1..Len(events) : events[k].kind # "entry-point"}
EntryEvents == {k \in 1..Len(events) : events[k].kind = "entry-point"}
WritesTo(name) == {k \in 1..Len(writes) : writes[k].name = name}

(***************************************************************************)
(* C1 - Reference integrity: after a build, in every HTML this build       *)
(* emitted, the attribute of each element that references a discovered,    *)
(* non-inlined file resolves, from the directory of the emitted HTML, to a *)
(* path that exists in the output tree.                                    *)
(***************************************************************************)
C1_ReferenceIntegrity ==
    pc = "done" =>
      \A k \in EmittedEntries :
        LET e == events[k].origin
            out == events[k].name
            doc == src[e].elems
        IN \A i \in 1..Len(doc) :
             (RefersToFile(e, doc[i]) /\ ~CoveredByInline(RefTarget(e, doc[i])))
             => /\ i <= Len(disk[out].elems)
                /\ FirstAttribute(doc[i]) \in DOMAIN disk[out].elems[i].attrs
                /\ Resolve(out.dir, disk[out].elems[i].attrs[FirstAttribute(doc[i])])
                      \in DOMAIN disk

(***************************************************************************)
(* C2 - Write-once: within one build every output path is physically       *)
(* written at most once; a later save of the same path writes nothing.     *)
(***************************************************************************)
C2_WriteOnce ==
    /\ \A i, j \in 1..Len(writes) : i # j => writes[i].name # writes[j].name
    /\ \A k \in 1..Len(events) :
         events[k].step = "saved" => Cardinality(WritesTo(events[k].name)) <= 1

\* a second graph entry reached save with a path that was saved before
C2_Witness ==
    \E k \in 1..Len(events) :
       /\ events[k].step = "saved"
       /\ Cardinality(WritesTo(events[k].name)) = 1


\* two renamed entries come from the same source file
SameOrigin(i, j) ==
    /\ newFiles[i].details.originalPath # NoPath
    /\ newFiles[i].details.originalPath = newFiles[j].details.originalPath

MovedByNaming(i) ==
    removeCommonPath(newFiles[i].file, cfg.outdir)
      # removeCommonPath(newFiles[i].details.originalPath,
                         findLastCommonPath(mapIntoKeys(files)))

NamingHasHash ==
    /\ cfg.naming.kind # "undefined"
    /\ cfg.naming.entry.hash /\ cfg.naming.chunk.hash /\ cfg.naming.asset.hash

C4_IdempotentSkip ==
    (builds > 1 /\ ~edited /\ NamingHasHash) =>
      /\ writes = <<>>
      /\ \A k \in 1..Len(events) :
           events[k].name \in DOMAIN disk => events[k].step = "skip"

\* a repeated build went through both write loops and skipped an asset
\* and an entry document
C4_Witness ==
    /\ builds > 1 /\ ~edited /\ NamingHasHash /\ pc = "done"
    /\ \E k \in NonEntryEvents : events[k].step = "skip"
    /\ \E k \in EntryEvents : events[k].step = "skip"


Referenced == {k \in 1..Len(discovered) : HasAttribute(discovered[k].details)}
NamedFrom(path) == {n \in 1..Len(newFiles) : newFiles[n].details.originalPath = path}
EventsFrom(path) == {k \in 1..Len(events) : events[k].origin = path}
Emitted(path) == \E n \in NamedFrom(path) : newFiles[n].file \in DOMAIN disk

\* the first half of C5: an inlined file is in no renamed entry and in no
\* iteration of the write loops
C5_NoFileForInlined ==
    pc \in {"nonentry", "entry", "done"} =>
      \A k \in Referenced :
        CoveredByInline(discovered[k].details.originalPath)
        => /\ NamedFrom(discovered[k].details.originalPath) = {}
           /\ EventsFrom(discovered[k].details.originalPath) = {}

(***************************************************************************)
(* C5 - Inlining exclusivity: a style or script file the inline option     *)
(* covers leaves the graph before naming and never reaches the writer;     *)
(* a referenced file of a kind not covered is still emitted.               *)
(***************************************************************************)
C5_InliningExclusivity ==
    /\ C5_NoFileForInlined
    /\ (pc = "done" /\ (cfg.inline.css \/ cfg.inline.js)) =>
         \A k \in Referenced :
           ~CoveredByInline(discovered[k].details.originalPath)
           => Emitted(discovered[k].details.originalPath)

EntrySet == {cfg.entrypoints[i] : i \in 1..Len(cfg.entrypoints)}
ElemsOf(e) == {src[e].elems[i] : i \in 1..Len(src[e].elems)}
HasRef(el) == PresentAttributes(el) # {} /\ ~isURL(RefValue(el))

\* files that only elements of excluded tags reference
OnlyExcluded ==
    {f \in DOMAIN src :
       /\ f \notin EntrySet
       /\ \E e \in EntrySet : \E el \in ElemsOf(e) :
             HasRef(el) /\ ~excludedSelector(el, Excluded(cfg)) /\ RefTarget(e, el) = f
       /\ \A e \in EntrySet : \A el \in ElemsOf(e) :
             RefersToFile(e, el) => RefTarget(e, el) # f}

DiscoveredFrom(e, path) ==
    \E k \in 1..Len(discovered) :
       /\ discovered[k].details.originalPath = path
       /\ discovered[k].details.htmlImporter = e
       /\ HasAttribute(discovered[k].details)

\* the first half of C6: such a file is in no graph, no renamed entry and
\* no iteration of the write loops
C6_ExcludedNeverEnter ==
    builds > 0 =>
      \A f \in OnlyExcluded :
        /\ \A k \in 1..Len(discovered) : discovered[k].details.originalPath # f
        /\ \A k \in 1..Len(files) : files[k].details.originalPath # f
        /\ NamedFrom(f) = {} /\ EventsFrom(f) = {}

(***************************************************************************)
(* C6 - Exclusion correctness: a file referenced only by elements of an    *)
(* excluded tag never enters the graph and is never written; a file        *)
(* referenced by a non-excluded element of the same document is           *)
(* discovered and is in the output tree after the build.                   *)
(***************************************************************************)
C6_ExclusionCorrectness ==
    /\ C6_ExcludedNeverEnter
    /\ builds > 0 =>
         \A e \in EntrySet : \A el \in ElemsOf(e) :
           (/\ RefersToFile(e, el)
            /\ \E ex \in ElemsOf(e) :
                  HasRef(ex) /\ ~excludedSelector(ex, Excluded(cfg)))
           => /\ DiscoveredFrom(e, RefTarget(e, el))
              /\ (pc = "done" /\ ~CoveredByInline(RefTarget(e, el)))
                 => Emitted(RefTarget(e, el))

\* no graph entry, renamed entry or write-loop iteration comes from path
DroppedFromGraph(path) ==
    /\ \A k \in 1..Len(discovered) : discovered[k].details.originalPath # path
    /\ \A k \in 1..Len(files) : files[k].details.originalPath # path
    /\ NamedFrom(path) = {} /\ EventsFrom(path) = {}

OthersProcessed(e) ==
    \A el \in ElemsOf(e) :
      RefersToFile(e, el)
      => /\ DiscoveredFrom(e, RefTarget(e, el))
         /\ pc \in {"nonentry", "entry", "done"}
            => \/ NamedFrom(RefTarget(e, el)) # {}
               \/ /\ CoveredByInline(RefTarget(e, el))
                  /\ \E r \in 1..Len(attributesToChange) :
                        /\ attributesToChange[r].type \in {"inlineCss", "inlineJs"}
                        /\ SelectorMatches(attributesToChange[r].selector, el)

(***************************************************************************)
(* C7 - Missing-asset resilience, as claimed: the build completes, the     *)
(* reference to a nonexistent path is dropped from the graph, it is absent *)
(* from the corresponding element of the rewritten markup, and the other   *)
(* references of the document are discovered.                              *)
(***************************************************************************)
C7_MissingAssetResilience ==
    pc = "done" =>
      \A k \in EmittedEntries :
        LET e == events[k].origin
            out == events[k].name
            doc == src[e].elems
        IN \A i \in 1..Len(doc) :
             RefersToMissing(e, doc[i])
             => /\ DroppedFromGraph(RefTarget(e, doc[i]))
                /\ FirstAttribute(doc[i]) \notin DOMAIN disk[out].elems[i].attrs
                /\ OthersProcessed(e)

(***************************************************************************)
(* C7 amended - the build completes, the reference to a nonexistent path   *)
(* is dropped from the graph and gets no output, the other references of   *)
(* the document are discovered and processed, and the element is emitted   *)
(* as it was written (with its attribute) unless a rule registered for     *)
(* another file matches it.                                                *)
(***************************************************************************)
C7_MissingDropped ==
    builds > 0 =>
      /\ \A e \in EntrySet : \A el \in ElemsOf(e) :
           RefersToMissing(e, el)
           => DroppedFromGraph(RefTarget(e, el)) /\ OthersProcessed(e)
      /\ pc = "done" =>
           \A k \in EmittedEntries :
             LET e == events[k].origin
                 out == events[k].name
                 doc == src[e].elems
             IN \A i \in 1..Len(doc) :
                  (/\ RefersToMissing(e, doc[i])
                   /\ \A r \in 1..Len(attributesToChange) :
                         ~SelectorMatches(attributesToChange[r].selector, doc[i]))
                  => disk[out].elems[i] = doc[i]

\* a build ended, its document names a missing file next to a file that
\* was discovered and written
C7_Witness ==
    /\ pc = "done"
    /\ \E k \in EmittedEntries :
         LET e == events[k].origin
         IN /\ \E el \in ElemsOf(e) : RefersToMissing(e, el)
            /\ \E el \in ElemsOf(e) :
                  /\ RefersToFile(e, el)
                  /\ \E w \in 1..Len(events) :
                        events[w].origin = RefTarget(e, el) /\ events[w].step = "write"


SetRules == {r \in 1..Len(attributesToChange) : attributesToChange[r].type = "set"}
RuleEvents == {k \in NonEntryEvents :
                 events[k].step \in {"write", "saved"}
                 /\ \E n \in 1..Len(newFiles) :
                       /\ newFiles[n].file = events[k].name
                       /\ newFiles[n].details.originalPath = events[k].origin
                       /\ HasAttribute(newFiles[n].details)}

(***************************************************************************)
(* C8 - Write ordering: an entry-point HTML is rewritten and written only  *)
(* after the write step of every non-entry file has run, so no rule is     *)
(* registered once the first HTML has been emitted.                        *)
(***************************************************************************)
C8_EntriesLast ==
    /\ \A i, j \in 1..Len(events) :
         (i < j /\ events[i].kind = "entry-point") => events[j].kind = "entry-point"
    /\ EntryEvents # {} =>
         /\ Cardinality(NonEntryEvents) = Len(NonEntries(newFiles))
         /\ Cardinality(SetRules) = Cardinality(RuleEvents)

\* a build that wrote a non-entry file, registered its rule and then
\* emitted an entry document
C8_Witness ==
    /\ pc = "done"
    /\ SetRules # {}
    /\ \E k \in NonEntryEvents : events[k].step = "write"
    /\ \E k \in EntryEvents : events[k].step = "write"

(***************************************************************************)
(* C9 - Graph uniqueness: the graph never holds two entries for the same   *)
(* resolved path.                                                          *)
(***************************************************************************)
C9_GraphUniqueness ==
    \A i, j \in 1..Len(files) :
      i # j => files[i].file.name # files[j].file.name

\* the places of the extractor's list a rule's file comes from
RuleOrigins(rule) ==
    {k \in 1..Len(discovered) :
       \E n \in 1..Len(newFiles) :
          /\ newFiles[n].file = rule.target
          /\ attributeToSelector(newFiles[n].details.attribute) = rule.selector
          /\ newFiles[n].details.attribute = discovered[k].details.attribute
          /\ newFiles[n].details.originalPath = discovered[k].details.originalPath
          /\ newFiles[n].details.htmlImporter = discovered[k].details.htmlImporter}
\* the discovery position of the file behind the rule at position r: equal
\* rules (several references to one file) take the origins in turn; 0 when
\* the rule has no origin
DiscoveryIndex(r) ==
    LET S == RuleOrigins(attributesToChange[r])
        n == Cardinality({q \in 1..r : attributesToChange[q] = attributesToChange[r]})
    IN IF Cardinality(S) >= n
       THEN CHOOSE k \in S : Cardinality({m \in S : m <= k}) = n
       ELSE 0

\* the value the handler of a rule writes into the HTML emitted at out
RuleValue(rule, out) ==
    LET rel == Relative(out.dir, rule.target)
    IN IF rule.toJs THEN changeFileExtension(rel, "js") ELSE rel

\* the set rules that match an element, and whether an inline rule does
MatchingSet(el) == {r \in SetRules : SelectorMatches(attributesToChange[r].selector, el)}
MatchedInline(el) ==
    \E r \in 1..Len(attributesToChange) :
       /\ attributesToChange[r].type # "set"
       /\ SelectorMatches(attributesToChange[r].selector, el)
MatchingFor(el, a) == {r \in MatchingSet(el) : attributesToChange[r].selector.name = a}
First(S) == CHOOSE r \in S : \A q \in S : r <= q
Last(S) == CHOOSE r \in S : \A q \in S : q <= r

\* in every HTML this build emitted, Pick(matching rules) decides each
\* attribute that set rules match
DecidedBy(Pick(_)) ==
    \A k \in EmittedEntries :
      LET out == events[k].name
          doc == src[events[k].origin].elems
      IN \A i \in 1..Len(doc) : \A a \in DOMAIN doc[i].attrs :
           (MatchingFor(doc[i], a) # {} /\ ~MatchedInline(doc[i]))
           => disk[out].elems[i].attrs[a]
                = RuleValue(attributesToChange[Pick(MatchingFor(doc[i], a))], out)

SuppressedByEarlierBuild ==
    {k \in 1..Len(events) :
       /\ events[k].step = "saved"
       /\ WritesTo(events[k].name) = {}}

(***************************************************************************)
(* C11 - Run-scoped state: at the start of every build invocation of one   *)
(* plugin instance the write ledger and the identity-fold map are empty,   *)
(* and no write of a build is suppressed by a path an earlier build saved. *)
(***************************************************************************)
C11_RunScopedState ==
    /\ pc = "start" => (pathSaved = {} /\ namedAs = NoNames)
    /\ SuppressedByEarlierBuild = {}

\* the script entry behind a path the resolver saw: a staged copy stands for
\* the entry it was copied from
Unstaged(p) ==
    IF IsPrefix(tempDirPath, p.dir)
    THEN Path(SrcP \o Drop(p.dir, Len(tempDirPath)), p.base) ELSE p

\* the text on disk of the output of a script entry, and the text the
\* bundler produced for it
WrittenAs(entry) ==
    {n \in 1..Len(newFiles) :
        /\ newFiles[n].details.kind # "entry-point"
        /\ newFiles[n].details.originalPath = entry
        /\ newFiles[n].file \in DOMAIN disk}
EmittedText(entry) ==
    disk[newFiles[CHOOSE n \in WrittenAs(entry) : TRUE].file].text
CompiledText(entry) == outputTexts[entrypointToOutput[entry]]

\* a queued specifier whose importer and target both have an output
Patchable(q) ==
    /\ Unstaged(toReplacePaths[q].from) \in DOMAIN entrypointToOutput
    /\ Unstaged(toReplacePaths[q].resolved) \in DOMAIN entrypointToOutput
    /\ WrittenAs(Unstaged(toReplacePaths[q].from)) # {}

\* every occurrence of the specifier of q in the importer's output reads
\* as the relative path from that output to the output of the target
Patched(q) ==
    LET from == Unstaged(toReplacePaths[q].from)
        target == Unstaged(toReplacePaths[q].resolved)
        newPath == Relative(entrypointToOutput[from].dir, entrypointToOutput[target])
    IN \A i \in 1..Len(CompiledText(from)) :
         (/\ CompiledText(from)[i].form \in ImportForms
          /\ CompiledText(from)[i].value = toReplacePaths[q].path)
         => EmittedText(from)[i].value = newPath

(***************************************************************************)
(* C12 - Literal-text pass completeness: after a build with code-splitting *)
(* every occurrence of a queued specifier, in the forms from "x", from"x"  *)
(* and require("x"), reads in the emitted text of the importer's output as *)
(* the relative path from the importer's output directory to the target's  *)
(* output, also with several queued specifiers per importer and with the   *)
(* entries staged in the temporary directory.                              *)
(***************************************************************************)
C12_LiteralPassComplete ==
    pc = "done" =>
      \A q \in 1..Len(toReplacePaths) : Patchable(q) => Patched(q)

(***************************************************************************)
(* C13 - keepOriginalPaths = true: the text written for every non-HTML     *)
(* output equals the text the compilation produced for it; neither the     *)
(* literal pass of the writer nor the rewrite of the import specifiers     *)
(* after bundling changes a path literal.                                  *)
(***************************************************************************)
C13_KeepOriginalPaths ==
    (pc = "done" /\ cfg.keepOriginalPaths) =>
      \A entry \in DOMAIN entrypointToOutput :
        WrittenAs(entry) # {} => EmittedText(entry) = CompiledText(entry)

\* the element the build emitted for element i of the document of the entry
\* written by event k
EmittedElem(k, i) == disk[events[k].name].elems[i]

\* what C14 asks of the element emitted for an inlined reference
InlinedAsStyle(e, el, out) ==
    /\ FirstAttribute(el) \notin DOMAIN out.attrs
    /\ out.tag = "style"
    /\ out.inner = <<cssMinifier(src[RefTarget(e, el)].text)>>
InlinedAsScript(e, el, out) ==
    /\ FirstAttribute(el) \notin DOMAIN out.attrs
    /\ out.inner = <<EscapeScript(Bundle(src[RefTarget(e, el)].text))>>

(***************************************************************************)
(* C14 - Inlined reference removal: in an emitted HTML, the element that   *)
(* referenced an inlined asset, by whichever attribute of the priority     *)
(* list, no longer carries that attribute, and its content is the compiled *)
(* text of the asset: a style element for a style asset, the script text   *)
(* with every literal </script> escaped for a script asset.                *)
(***************************************************************************)
C14_InlinedReferenceRemoval ==
    (pc = "done" /\ ~edited) =>
      \A k \in EmittedEntries :
        LET e == events[k].origin
        IN \A i \in 1..Len(src[e].elems) :
             LET el == src[e].elems[i]
             IN (RefersToFile(e, el) /\ CoveredByInline(RefTarget(e, el)))
                => IF Ext(RefTarget(e, el)) \in StyleExtensions
                   THEN InlinedAsStyle(e, el, EmittedElem(k, i))
                   ELSE InlinedAsScript(e, el, EmittedElem(k, i))

\* the entry of newFiles that the write-loop iteration of event k handled:
\* the non-entry files come first, the entry points after them
EventItem(k) ==
    IF k <= Len(NonEntries(newFiles)) THEN NonEntries(newFiles)[k]
    ELSE Entries(newFiles)[k - Len(NonEntries(newFiles))]

\* the bytes that iteration hands to save when it does not skip
WouldWrite(k) ==
    IF events[k].kind = "entry-point"
    THEN EmittedHtml(src, EventItem(k), attributesToChange)
    ELSE Body(src, EventItem(k).details.content)

(***************************************************************************)
(* C15 - Skip soundness: whenever a write loop skips an output because its *)
(* target path holds its hash and a file exists there, the bytes on disk   *)
(* equal the content this build would have written, also for an entry      *)
(* point HTML after the content of a referenced asset has changed.         *)
(***************************************************************************)
C15_SkipSoundness ==
    pc = "done" =>
      \A k \in 1..Len(events) :
        events[k].step = "skip" => disk[events[k].name] = WouldWrite(k)

\* the value the rule of the written file item puts into an attribute of the
\* entry point emitted at fileLocation
RewrittenTo(item, fileLocation) ==
    LET rel == Relative(fileLocation.dir, item.file)
    IN IF Ext(item.file) \in buildExtensions
       THEN changeFileExtension(rel, "js") ELSE rel

\* the files that the entry document e imports through the attribute a of el
OwnReferences(e, el, a) ==
    {n \in 1..Len(newFiles) :
       /\ newFiles[n].details.kind # "entry-point"
       /\ newFiles[n].details.htmlImporter = e
       /\ newFiles[n].details.attribute = [name |-> a, value |-> el.attrs[a]]
       /\ newFiles[n].details.originalPath = Resolve(e.dir, el.attrs[a])}

(***************************************************************************)
(* C16 - Cross-entry isolation: with several HTML entry points in one      *)
(* build, an attribute of entry A that the emission changed holds the path *)
(* to the output of the file that A's own reference resolved to; a rule    *)
(* made for a file imported by another entry never changes it.             *)
(***************************************************************************)
C16_CrossEntryIsolation ==
    (pc = "done" /\ ~edited) =>
      \A k \in EmittedEntries :
        LET e == events[k].origin
        IN \A i \in 1..Len(src[e].elems) :
             LET el == src[e].elems[i]
                 out == EmittedElem(k, i)
             IN \A a \in (DOMAIN el.attrs) \cap (DOMAIN out.attrs) :
                  out.attrs[a] # el.attrs[a] =>
                    \E n \in OwnReferences(e, el, a) :
                      out.attrs[a] = RewrittenTo(newFiles[n], events[k].name)

====
